---- MODULE Spec2Model ----
(***************************************************************************)
(* psplit: a named-pipe fan-out multiplexer (src/src/lib.rs).              *)
(*                                                                         *)
(* One Supervisor (split_pipes) spawns one Reader thread per enabled       *)
(* input; each Reader spawns one Writer thread per enabled output and      *)
(* feeds it through a capacity-1 sync_channel.  The model follows the      *)
(* control flow of Reader::run / loop_till_stopped / loop_read_pipe and of *)
(* Writer::run_loop / loop_till_stopped / loop_write_messages.  Every      *)
(* acquisition of a signal mutex is a step of its own, because the other   *)
(* threads may change the signal between two acquisitions.                 *)
(*                                                                         *)
(* The environment is the FIFOs' remote ends: a producer per source FIFO   *)
(* (attach, write a line, detach) and a consumer per destination FIFO      *)
(* (attach, detach).  Lines are numbered 1, 2, ... in the order the        *)
(* producer writes them; a line is written to the source FIFO whole.       *)
(***************************************************************************)
EXTENDS Naturals, Sequences, FiniteSets

\* ------------------------------------------------------------------ bounds

\* Number of lines the producer of a source FIFO writes in a run, when one
\* output is enabled and when two are.
MaxLines == 3
MaxLinesTwo == 2

\* ------------------------------------------------------- program constants

SIG_RUN == 0
SIG_EXIT == 1
SIG_CLOSE == 2

\* mpsc::sync_channel(1)
ChannelCapacity == 1

\* ------------------------------------------------------------------ Parser

\* A string is the sequence of its characters.  The config strings of the
\* INI documents the model loads: for a [PIPES] entry and for a key of an
\* input's section.  "" asks for the side's default; "1,WT" has an
\* upper-case mode, "1,wF" an unknown one, "1," an empty one.
InConfigs ==
    { << >>,
      << "0", ",", "r", "b" >>,
      << "1", "," >> }
OutConfigs ==
    { << >>,
      << "0" >>,
      << "1", ",", "W", "T" >>,
      << "1", ",", "w", "F" >> }

\* The names an INI document uses: keys of [PIPES], and keys of the sections
\* named after them.  "b" may be an input and an output of "a".
InNames == {"a", "b"}
OutNames == {"b", "c"}

\* char::to_lowercase, on the characters of the config strings
LowerChar(ch) ==
    CASE ch = "R" -> "r"
      [] ch = "W" -> "w"
      [] ch = "T" -> "t"
      [] ch = "B" -> "b"
      [] ch = "F" -> "f"
      [] OTHER -> ch

\* str::to_lowercase
to_lowercase(str) == [i \in 1..Len(str) |-> LowerChar(str[i])]

RECURSIVE split(_, _)
\* str::split(sep).collect(): the fields between the separators; a string
\* with no separator (the empty one too) is one field.
split(str, sep) ==
    IF \E i \in 1..Len(str) : str[i] = sep
    THEN LET i == CHOOSE k \in 1..Len(str) :
                     /\ str[k] = sep
                     /\ \A j \in 1..(k - 1) : str[j] # sep
         IN  << SubSeq(str, 1, i - 1) >> \o split(SubSeq(str, i + 1, Len(str)), sep)
    ELSE << str >>

\* ParseError::Configuration(format!("Unknown operation type '{s}'"))
UnknownOperationType(s) ==
    [kind |-> "Configuration", text |-> << "Unknown operation type '", s, "'" >>]

\* ParseError::Configuration(<a literal>), ParseError::Ini(_)
ConfigurationError(literal) == [kind |-> "Configuration", text |-> << literal >>]
IniError == [kind |-> "Ini", text |-> << >>]
NoError == [kind |-> "", text |-> << >>]

\* Result<Config, ParseError>
OkConfig(enabled, mode) == [ok |-> TRUE, enabled |-> enabled, mode |-> mode, err |-> NoError]
ErrConfig(e) == [ok |-> FALSE, enabled |-> FALSE, mode |-> "None", err |-> e]

\* The mode codes get_split_configuration knows (OperationMode::code).
ModeOf(code) ==
    CASE code = << "r", "t" >> -> "StringRead"
      [] code = << "r", "b" >> -> "BytesRead"
      [] code = << "w", "t" >> -> "StringWrite"
      [] code = << "w", "b" >> -> "BytesWrite"
      [] OTHER -> "Unknown"

\* Mutant of get_split_configuration: the mode is matched as written, with
\* no to_lowercase.
get_split_configuration_cased(config) ==
    LET operation_config == split(config, ",")
        enabled == to_lowercase(operation_config[1]) = << "1" >>
    IN  IF Len(operation_config) >= 2
        THEN IF ModeOf(operation_config[2]) = "Unknown"
             THEN ErrConfig(UnknownOperationType(operation_config[2]))
             ELSE OkConfig(enabled, ModeOf(operation_config[2]))
        ELSE OkConfig(enabled, "None")

\* Parser::get_split_configuration
get_split_configuration(config) ==
    LET operation_config == split(config, ",")
        enabled == to_lowercase(operation_config[1]) = << "1" >>
    IN  IF Len(operation_config) >= 2
        THEN IF ModeOf(to_lowercase(operation_config[2])) = "Unknown"
             THEN ErrConfig(UnknownOperationType(operation_config[2]))
             ELSE OkConfig(enabled, ModeOf(to_lowercase(operation_config[2])))
        ELSE OkConfig(enabled, "None")

\* Parser::get_read_config (Config::default_read for the empty string)
get_read_config(config) ==
    IF config = << >> THEN OkConfig(TRUE, "StringRead")
    ELSE get_split_configuration(config)

\* Parser::get_write_config (Config::default_write for the empty string)
get_write_config(config) ==
    IF config = << >> THEN OkConfig(TRUE, "StringWrite")
    ELSE get_split_configuration(config)

\* A section of an INI document (ini::Properties, or no such section): its
\* keys, each once, with their values, in the order of the document.
Section(names, configs) ==
    { [present |-> FALSE, props |-> << >>] } \cup
    { [present |-> TRUE, props |-> q] :
        q \in UNION { { f \in [1..n -> [key : names, value : configs]] :
                          \A i, j \in 1..n : f[i].key = f[j].key => i = j }
                      : n \in 0..Cardinality(names) } }

\* The INI documents the model loads (ini::Ini): [DEFAULT] root, [PIPES],
\* and the sections named after the inputs.
Documents ==
    [ root : {[present |-> TRUE, value |-> "/tmp"]},
      pipes : Section(InNames, InConfigs),
      sections : [InNames -> Section(OutNames, OutConfigs)] ]

\* Parser::get_root_directory
get_root_directory(conf) ==
    IF conf.root.present THEN conf.root.value ELSE "/tmp/cvnpipes"

\* format!("{root}/{key}")
PipePath(root, key) == << root, "/", key >>

\* Result<Vec<_>, ParseError>
OkList(list) == [ok |-> TRUE, list |-> list, err |-> NoError]
ErrList(e) == [ok |-> FALSE, list |-> << >>, err |-> e]

RECURSIVE SplitOutputsFrom(_, _, _, _)
\* Parser::get_split_outputs, the loop over the section's keys from the
\* i-th on, out_puts being the Vec built so far.
SplitOutputsFrom(props, root, i, out_puts) ==
    IF i > Len(props) THEN OkList(out_puts)
    ELSE LET configuration == get_write_config(props[i].value)
         IN  IF ~configuration.ok THEN ErrList(configuration.err)
             ELSE SplitOutputsFrom(props, root, i + 1,
                      Append(out_puts,
                             [pipe |-> PipePath(root, props[i].key),
                              enabled |-> configuration.enabled,
                              mode |-> configuration.mode]))

\* Mutant of get_split_outputs: the disabled outputs are left out of the
\* Vec.
get_split_outputs_enabled(conf, input_pipe, root) ==
    LET r == IF conf.sections[input_pipe].present
             THEN SplitOutputsFrom(conf.sections[input_pipe].props, root, 1, << >>)
             ELSE OkList(<< >>)
    IN  [ok |-> r.ok, list |-> SelectSeq(r.list, LAMBDA o : o.enabled), err |-> r.err]

\* Parser::get_split_outputs
get_split_outputs(conf, input_pipe, root) ==
    IF conf.sections[input_pipe].present
    THEN SplitOutputsFrom(conf.sections[input_pipe].props, root, 1, << >>)
    ELSE OkList(<< >>)

RECURSIVE SplitInputsFrom(_, _, _, _, _)
\* Parser::get_split_inputs, the loop over the keys of [PIPES] from the
\* i-th on, split_configs being the Vec built so far.
SplitInputsFrom(root, props, conf, i, split_configs) ==
    IF i > Len(props) THEN OkList(split_configs)
    ELSE LET configuration == get_read_config(props[i].value)
             outputs == get_split_outputs(conf, props[i].key, root)
         IN  IF ~configuration.ok THEN ErrList(configuration.err)
             ELSE IF ~outputs.ok THEN ErrList(outputs.err)
             ELSE SplitInputsFrom(root, props, conf, i + 1,
                      Append(split_configs,
                             [pipe |-> PipePath(root, props[i].key),
                              enabled |-> configuration.enabled,
                              mode |-> configuration.mode,
                              outputs |-> outputs.list]))

\* Parser::get_split_inputs
get_split_inputs(root, input_pipes, conf) ==
    SplitInputsFrom(root, input_pipes.props, conf, 1, << >>)

\* Mutant of parse_config: a document with no [PIPES] section is taken as
\* one with an empty [PIPES] section.
parse_config_lenient(conf, canCreateRoot) ==
    IF ~canCreateRoot
    THEN ErrList(ConfigurationError("Could not create pipe root directory"))
    ELSE get_split_inputs(get_root_directory(conf), conf.pipes, conf)

\* Parser::parse_config.  canCreateRoot: the root directory exists or
\* fs::create_dir_all makes it.
parse_config(conf, canCreateRoot) ==
    IF ~canCreateRoot
    THEN ErrList(ConfigurationError("Could not create pipe root directory"))
    ELSE IF ~conf.pipes.present
    THEN ErrList(ConfigurationError("configuration must contain a 'PIPES' section"))
    ELSE get_split_inputs(get_root_directory(conf), conf.pipes, conf)

\* Parser::load_from_file.  canRead: Ini::load_from_file reads and parses
\* the file.
load_from_file(conf, canRead, canCreateRoot) ==
    IF ~canRead THEN ErrList(IniError)
    ELSE parse_config(conf, canCreateRoot)

\* SplitIn::enabled_outputs, of a parsed entry
EnabledOutputs(split_in) ==
    Cardinality({j \in 1..Len(split_in.outputs) : split_in.outputs[j].enabled})

\* ------------------------------------------------------------ thread spawns

\* A Reader thread as create_splitting_threads spawns it: the index of its
\* entry, whether start_write_channels has run, and its send_channels (the
\* channels it holds the SyncSender of).
NewReader(i) == [entry |-> i, started |-> FALSE, send_channels |-> << >>]

RECURSIVE SplittingThreadsFrom(_, _, _)
\* create_splitting_threads, the loop over the entries from the i-th on.
SplittingThreadsFrom(entries, i, reading_threads) ==
    IF i > Len(entries) THEN reading_threads
    ELSE IF ~entries[i].enabled \/ EnabledOutputs(entries[i]) = 0
    THEN SplittingThreadsFrom(entries, i + 1, reading_threads)
    ELSE SplittingThreadsFrom(entries, i + 1, Append(reading_threads, NewReader(i)))

\* Mutant of create_splitting_threads: the test of enabled_outputs() is
\* left out.
create_splitting_threads_any_outputs(entries) ==
    LET idx == [i \in 1..Len(entries) |-> i]
        sel == SelectSeq(idx, LAMBDA i : entries[i].enabled)
    IN  [k \in 1..Len(sel) |-> NewReader(sel[k])]

\* create_splitting_threads
create_splitting_threads(entries) == SplittingThreadsFrom(entries, 1, << >>)

RECURSIVE WriteChannelsFrom(_, _, _, _, _)
\* Reader::start_write_channels, the loop over the outputs of the Reader's
\* entry from the j-th on: a new channel (numbered in the order of
\* creation), its SyncSender pushed on send_channels, its Receiver moved
\* into a new Writer thread.
WriteChannelsFrom(entry, outputs, j, send_channels, spawned) ==
    IF j > Len(outputs) THEN [send_channels |-> send_channels, spawned |-> spawned]
    ELSE IF ~outputs[j].enabled
    THEN WriteChannelsFrom(entry, outputs, j + 1, send_channels, spawned)
    ELSE LET channel == Len(spawned) + 1
         IN  WriteChannelsFrom(entry, outputs, j + 1,
                 Append(send_channels, channel),
                 Append(spawned, [entry |-> entry, output |-> j,
                                  pipe |-> outputs[j].pipe, receiver |-> channel]))

\* Mutant of start_write_channels: sync_channel is called once, before the
\* loop, and every Writer of the group is given that one channel.
start_write_channels_shared(entry, outputs, spawned) ==
    LET r == WriteChannelsFrom(entry, outputs, 1, << >>, spawned)
        channel == Len(spawned) + 1
    IN  [send_channels |-> [i \in 1..Len(r.send_channels) |-> channel],
         spawned |-> [v \in 1..Len(r.spawned) |->
                        IF v <= Len(spawned) THEN spawned[v]
                        ELSE [entry |-> entry, output |-> r.spawned[v].output,
                              pipe |-> r.spawned[v].pipe, receiver |-> channel]]]

\* Reader::start_write_channels, for the Reader of entry `entry`; spawned:
\* the Writer threads spawned so far.
start_write_channels(entry, outputs, spawned) ==
    WriteChannelsFrom(entry, outputs, 1, << >>, spawned)

\* ----------------------------------------------------------- configuration

\* The parsed configuration of scenario S2/S4 of the specification:
\* [PIPES] a=   [a] b=  c=     (everything enabled).
Inputs == {"a"}
Outputs == {"b", "c"}
InputOf(w) == "a"
OutputsOf(g) == {w \in Outputs : InputOf(w) = g}


VARIABLES
    ini,        \* the INI document in the configuration file
    fsys,       \* the file system: "ok" | "unreadable" (the file cannot be
                \* loaded) | "no_root" (the root directory cannot be made)
    loaded,     \* split_pipes: the result of Parser::load_from_file
    readers,    \* the Reader threads spawned (reading_threads), in order
    writers,    \* the Writer threads spawned, in order
    inEnabled,  \* SplitIn.configuration.enabled, per input (never changes)
    outEnabled, \* SplitOut.configuration.enabled, per output (never changes)
    signal,     \* the process-wide signal (split_pipes: Arc<Mutex<u8>>)
    supPc,      \* Supervisor position: "load" | "spawn" | "idle", or
                \* "panicked" | "returned" (split_pipes is over)
    rpc,        \* Reader position, per input
    rfd,        \* Reader holds an open fd on its source FIFO
    wsig,       \* Reader.write_signal, the group's writer-state
    evClosed,   \* is_read_closed() of the event the Reader is draining under
    disc,       \* MessageSender.disconnected, per output
    prod,       \* a producer has the source FIFO open for writing
    nw,         \* number of lines the producer has written
    srcBuf,     \* lines in the source FIFO not yet read
    rdy,        \* the source fd is on the poller's ready list (edge pending)
    readSeq,    \* history: lines read by the Reader, in order
    wpc,        \* Writer position, per output
    wfd,        \* Writer holds an open fd on its destination FIFO
    ignore,     \* Writer.ignore_first_message
    evWClosed,  \* is_write_closed() of the event the Writer writes under
                \* (FALSE outside loop_write_messages)
    chan,       \* content of the Reader-to-Writer channel
    cons,       \* a consumer has the destination FIFO open for reading
    full,       \* the destination FIFO's buffer is full (the consumer stalls)
    out,        \* history: lines written to the destination FIFO, in order
    destFs      \* per output, the answers the operating system may give to
                \* the calls of the Writer's open (mkfifo, open, Poll)

vars == << ini, fsys, loaded, readers, writers,
           inEnabled, outEnabled, signal, supPc, rpc, rfd, wsig, evClosed, disc, prod, nw, srcBuf,
           rdy, readSeq, wpc, wfd, ignore, evWClosed, chan, cons, full, out, destFs >>

fileVars == << ini, fsys, loaded >>
threadVars == << readers, writers >>
supVars == << inEnabled, outEnabled, signal, supPc, fileVars, threadVars >>
readerVars == << rpc, rfd, wsig, evClosed, disc, readSeq >>
sourceVars == << prod, nw, srcBuf, rdy >>
writerVars == << wpc, wfd, ignore, evWClosed, out >>
destVars == << cons, full, destFs >>

\* What the operating system answers to the calls of a Writer's open: the
\* errno of mkfifo, the errno of open when a consumer has the FIFO open
\* (with none, open of O_WRONLY | O_NONBLOCK gives ENXIO), and whether
\* Poll::new and register succeed.  An answer is given in full even where a
\* call is not reached.
FsAnswers ==
    { a \in [mkfifo : {"0", "EEXIST", "EACCES", "ENOENT", "ENOSPC"},
             open : {"0", "EACCES"},
             poll : {"Ok", "Err"}] :
        /\ a.mkfifo \notin {"0", "EEXIST"} => (a.open = "0" /\ a.poll = "Ok")
        /\ a.open # "0" => a.poll = "Ok" }

\* Writer::create: the io::ErrorKind for mkfifo's errno
create(errno) ==
    CASE errno = "0" -> "Ok"
      [] errno = "EACCES" -> "PermissionDenied"
      [] errno = "EEXIST" -> "AlreadyExists"
      [] errno = "ENOENT" -> "NotFound"
      [] OTHER -> "Other"

\* OpenOptions::open of the FIFO for writing, non-blocking: the
\* io::ErrorKind of its result.
OpenKind(errno, hasConsumer) ==
    IF errno = "EACCES" THEN "PermissionDenied"
    ELSE IF ~hasConsumer THEN "Other"
    ELSE "Ok"

\* Mutant of open_pipe: an AlreadyExists of create is returned like any
\* other error.
open_pipe_strict(answer, hasConsumer) ==
    IF create(answer.mkfifo) # "Ok" THEN create(answer.mkfifo)
    ELSE OpenKind(answer.open, hasConsumer)

\* Writer::open_pipe: "Ok" or the kind of the error returned
open_pipe(answer, hasConsumer) ==
    IF create(answer.mkfifo) \notin {"Ok", "AlreadyExists"} THEN create(answer.mkfifo)
    ELSE OpenKind(answer.open, hasConsumer)

\* Writer::run_loop, from open_pipe() to the call of loop_till_stopped:
\* "opened", "return_err" (the thread ends) or "retry" (sleep; continue).
RunLoopOpen(answer, hasConsumer) ==
    LET pipe == open_pipe(answer, hasConsumer)
    IN  IF pipe = "PermissionDenied" THEN "return_err"
        ELSE IF pipe # "Ok" THEN "retry"
        ELSE IF answer.poll # "Ok" THEN "return_err"
        ELSE "opened"

\* Writer positions.  rl_*: Writer::run_loop (Idle; rl_open is Opening);
\* ls_*: Writer::loop_till_stopped, lw_*: loop_write_messages (Writing).
ParkedPcs == {"rl_stop", "rl_close"}
IdlePcs == ParkedPcs \cup {"rl_open"}
WritingPcs == {"ls_stop", "ls_close", "ls_poll", "lw_stop", "lw_close", "lw_recv"}

\* The Writer thread owns the channel's Receiver from its spawn to its end.
ReceiverAlive(w) == wpc[w] \in IdlePcs \cup WritingPcs

\* The Reader owns every SyncSender of its group until it is dropped.
SenderAlive(g) == rpc[g] # "done"

\* SplitIn::enabled_outputs
enabled_outputs(g) == Cardinality({w \in OutputsOf(g) : outEnabled[w]})

\* The lines the producer of g may write in a run.
LineBudget(g) == IF enabled_outputs(g) > 1 THEN MaxLinesTwo ELSE MaxLines

\* The text of a configuration string that leaves a pipe enabled (the
\* default) or disables it.
EnabledText(b) == IF b THEN << >> ELSE << "0" >>

\* The INI document of a scenario: [PIPES] a=..., [a] b=... c=...
ScenarioDocument(ins, outs) ==
    [root |-> [present |-> TRUE, value |-> "/tmp"],
     pipes |-> [present |-> TRUE,
                props |-> << [key |-> "a", value |-> EnabledText(ins["a"])] >>],
     sections |-> [n \in InNames |->
                     IF n = "a"
                     THEN [present |-> TRUE,
                           props |-> << [key |-> "b", value |-> EnabledText(outs["b"])],
                                        [key |-> "c", value |-> EnabledText(outs["c"])] >>]
                     ELSE [present |-> FALSE, props |-> << >>]]]

\* split_pipes has not called Parser::load_from_file yet.
NotLoaded == [ok |-> FALSE, list |-> << >>, err |-> NoError]

\* No thread is spawned: the state of the threads' variables.
NoThreads ==
    /\ readers = << >>
    /\ writers = << >>
    /\ rpc = [g \in Inputs |-> "unborn"]
    /\ rfd = [g \in Inputs |-> FALSE]
    /\ wsig = [g \in Inputs |-> SIG_CLOSE]
    /\ evClosed = [g \in Inputs |-> FALSE]
    /\ disc = [w \in Outputs |-> FALSE]
    /\ prod = [g \in Inputs |-> FALSE]
    /\ nw = [g \in Inputs |-> 0]
    /\ srcBuf = [g \in Inputs |-> << >>]
    /\ rdy = [g \in Inputs |-> FALSE]
    /\ readSeq = [g \in Inputs |-> << >>]
    /\ wpc = [w \in Outputs |-> "unborn"]
    /\ wfd = [w \in Outputs |-> FALSE]
    /\ ignore = [w \in Outputs |-> FALSE]
    /\ evWClosed = [w \in Outputs |-> FALSE]
    /\ chan = [w \in Outputs |-> << >>]
    /\ full = [w \in Outputs |-> FALSE]
    /\ out = [w \in Outputs |-> << >>]

\* The state once split_pipes has loaded the configuration and created the
\* process-wide signal; no thread is spawned yet.
InitFs(ins, outs, fs) ==
    /\ destFs = fs
    /\ ini = ScenarioDocument(ins, outs)
    /\ fsys = "ok"
    /\ loaded = load_from_file(ini, TRUE, TRUE)
    /\ inEnabled = ins
    /\ outEnabled = outs
    /\ signal = SIG_RUN
    /\ supPc = "spawn"
    /\ NoThreads
    /\ cons \in {c \in [Outputs -> BOOLEAN] : \A w \in Outputs : c[w] => outs[w]}

\* The same, the operating system being free in its answers to the opens.
InitWith(ins, outs) == InitFs(ins, outs, [w \in Outputs |-> FsAnswers])

\* Scenario S3: [a] b=1,wt  c=0,wt  (output c disabled).
Init == InitWith([g \in Inputs |-> TRUE], [w \in Outputs |-> w = "b"])

\* Scenario S2: [a] b=  c=  (both outputs enabled).
InitTwo == InitWith([g \in Inputs |-> TRUE], [w \in Outputs |-> TRUE])

\* The scenarios in which the operating system gives one and the same
\* answer to every open of the Writer of b: S3 (b alone) with each answer,
\* and S2 (b and c, the opens of c going any way) with each answer that
\* never lets b open.
InitOpen ==
    \E answer \in FsAnswers :
        LET fs == [w \in Outputs |-> IF w = "b" THEN {answer} ELSE FsAnswers]
        IN  \/ InitFs([g \in Inputs |-> TRUE], [w \in Outputs |-> w = "b"], fs)
            \/ /\ \A hasConsumer \in BOOLEAN :
                     RunLoopOpen(answer, hasConsumer) # "opened"
               /\ InitFs([g \in Inputs |-> TRUE], [w \in Outputs |-> TRUE], fs)

\* -------------------------------------------------------------- Supervisor

\* create_splitting_threads: one Reader thread per input that is enabled and
\* has an enabled output (Reader::new gives it write_signal = SIG_CLOSE, the
\* value wsig has from Init).
SupSpawn ==
    /\ supPc = "spawn"
    /\ supPc' = "idle"
    /\ rpc' = [g \in Inputs |->
                 IF inEnabled[g] /\ enabled_outputs(g) # 0
                 THEN "start" ELSE rpc[g]]
    /\ readers' = create_splitting_threads(loaded.list)
    /\ UNCHANGED << inEnabled, outEnabled, signal, fileVars, writers >>
    /\ UNCHANGED << rfd, wsig, evClosed, disc, readSeq, chan >>
    /\ UNCHANGED << sourceVars, writerVars, destVars >>

\* The k-th Reader thread runs start_write_channels: its send_channels are
\* filled and the Writer threads it spawns join `writers`.
StartWriteChannels(k) ==
    LET entry == readers[k].entry
        r == start_write_channels(entry, loaded.list[entry].outputs, writers)
    IN  /\ readers' = [readers EXCEPT ![k] = [entry |-> entry, started |-> TRUE,
                                              send_channels |-> r.send_channels]]
        /\ writers' = r.spawned

\* The state when split_pipes is called, over every document and file
\* system of the model.  The specification that starts here follows the
\* startup alone: the load, and the spawns of the threads.
InitStartup ==
    /\ ini \in Documents
    /\ fsys \in {"ok", "unreadable", "no_root"}
    /\ loaded = NotLoaded
    /\ inEnabled = [g \in Inputs |-> FALSE]
    /\ outEnabled = [w \in Outputs |-> FALSE]
    /\ signal = SIG_RUN
    /\ supPc = "load"
    /\ NoThreads
    /\ cons = [w \in Outputs |-> FALSE]
    /\ destFs = [w \in Outputs |-> FsAnswers]

\* The variables of the threads' runs, which the startup leaves alone.
runVars == << inEnabled, outEnabled, signal, readerVars, sourceVars,
              writerVars, destVars, chan >>

\* split_pipes: Parser::load_from_file; an error panics, an empty list of
\* entries returns Ok(()).
SupLoad ==
    /\ supPc = "load"
    /\ loaded' = load_from_file(ini, fsys # "unreadable", fsys # "no_root")
    /\ supPc' = IF ~loaded'.ok THEN "panicked"
                ELSE IF Len(loaded'.list) = 0 THEN "returned"
                ELSE "spawn"
    /\ UNCHANGED << ini, fsys, threadVars, runVars >>

\* split_pipes: create_splitting_threads(&entries, &signal)
SupCreateThreads ==
    /\ supPc = "spawn"
    /\ supPc' = "idle"
    /\ readers' = create_splitting_threads(loaded.list)
    /\ UNCHANGED << fileVars, writers, runVars >>

\* The thread of the k-th Reader: reader.start_write_channels()
ReaderStartWriteChannels(k) ==
    /\ ~readers[k].started
    /\ StartWriteChannels(k)
    /\ UNCHANGED << fileVars, supPc, runVars >>

\* split_pipes: loop { thread::sleep(TIME_OUT) }
SupSleep ==
    /\ supPc = "idle"
    /\ UNCHANGED vars

\* Mutant of SupervisorShutdown: the holder of the process-wide signal also
\* stores SIG_EXIT in the writer-state of every group.
SupervisorShutdownWriters ==
    /\ supPc = "idle"
    /\ signal = SIG_RUN
    /\ signal' = SIG_EXIT
    /\ wsig' = [g \in Inputs |-> SIG_EXIT]
    /\ UNCHANGED << inEnabled, outEnabled, supPc, chan, fileVars, threadVars >>
    /\ UNCHANGED << rpc, rfd, evClosed, disc, readSeq >>
    /\ UNCHANGED << sourceVars, writerVars, destVars >>

\* The holder of the process-wide signal stores SIG_EXIT in it: the value
\* Reader::should_stop tests for, and the shutdown the specification gives
\* the Supervisor ("on shutdown the supervisor publishes EXIT").  No
\* statement of split_pipes, nor of any other function of the crate, does
\* it: this action is part of Next only, never of NextCode.
SupervisorShutdown ==
    /\ supPc = "idle"
    /\ signal = SIG_RUN
    /\ signal' = SIG_EXIT
    /\ UNCHANGED << inEnabled, outEnabled, supPc, chan, fileVars, threadVars >>
    /\ UNCHANGED << readerVars, sourceVars, writerVars, destVars >>

\* ------------------------------------------------------------------ Reader

\* The Reader thread of input g among `readers`.
ReaderOf(g) ==
    CHOOSE k \in 1..Len(readers) :
        loaded.list[readers[k].entry].pipe = PipePath(get_root_directory(ini), g)

\* Reader::start_write_channels: one channel and one Writer thread per
\* enabled output; then Reader::run begins.
ReaderStart(g) ==
    /\ rpc[g] = "start"
    /\ StartWriteChannels(ReaderOf(g))
    /\ rpc' = [rpc EXCEPT ![g] = "open"]
    /\ wpc' = [w \in Outputs |->
                 IF InputOf(w) = g /\ outEnabled[w] THEN "rl_stop" ELSE wpc[w]]
    /\ chan' = [w \in Outputs |-> IF InputOf(w) = g THEN << >> ELSE chan[w]]
    /\ disc' = [w \in Outputs |-> IF InputOf(w) = g THEN FALSE ELSE disc[w]]
    /\ UNCHANGED << rfd, wsig, evClosed, readSeq >>
    /\ UNCHANGED << wfd, ignore, evWClosed, out >>
    /\ UNCHANGED << inEnabled, outEnabled, signal, supPc, fileVars >>
    /\ UNCHANGED << sourceVars, destVars >>

\* impl Drop for Reader: stop_writers(); the SyncSenders go with the Reader.
ReaderDropped(g) ==
    /\ rpc' = [rpc EXCEPT ![g] = "done"]
    /\ rfd' = [rfd EXCEPT ![g] = FALSE]
    /\ wsig' = [wsig EXCEPT ![g] = SIG_EXIT]

\* Reader::run, open_pipe succeeds: O_RDONLY | O_NONBLOCK, registered READABLE.
ReaderOpenOk(g) ==
    /\ rpc[g] = "open"
    /\ rpc' = [rpc EXCEPT ![g] = "polling"]
    /\ rfd' = [rfd EXCEPT ![g] = TRUE]
    /\ UNCHANGED << wsig, evClosed, disc, readSeq, chan >>
    /\ UNCHANGED << supVars, sourceVars, writerVars, destVars >>

\* Reader::run, open_pipe (or Poll::new / register) fails: return Err, and
\* the Reader is dropped.
ReaderOpenFail(g) ==
    /\ rpc[g] = "open"
    /\ ReaderDropped(g)
    /\ UNCHANGED << evClosed, disc, readSeq, chan >>
    /\ UNCHANGED << supVars, sourceVars, writerVars, destVars >>

\* Reader::loop_till_stopped: should_stop() is true: stop_writers(); break;
\* run returns and the Reader is dropped.
ReaderStop(g) ==
    /\ rpc[g] = "polling"
    /\ signal = SIG_EXIT
    /\ ReaderDropped(g)
    /\ UNCHANGED << evClosed, disc, readSeq, chan >>
    /\ UNCHANGED << supVars, sourceVars, writerVars, destVars >>

\* Mutant of ReaderPollError: the error is answered with stop_writers() and
\* the loop goes on polling.
ReaderPollErrorGoesOn(g) ==
    /\ rpc[g] = "polling"
    /\ signal # SIG_EXIT
    /\ wsig' = [wsig EXCEPT ![g] = SIG_EXIT]
    /\ UNCHANGED << rpc, rfd, evClosed, disc, readSeq, chan >>
    /\ UNCHANGED << supVars, sourceVars, writerVars, destVars >>

\* Reader::loop_till_stopped: poll.poll(..)? fails (EINTR for one): return
\* Err, and the Reader is dropped.
ReaderPollError(g) ==
    /\ rpc[g] = "polling"
    /\ signal # SIG_EXIT
    /\ ReaderDropped(g)
    /\ UNCHANGED << evClosed, disc, readSeq, chan >>
    /\ UNCHANGED << supVars, sourceVars, writerVars, destVars >>

\* Reader::loop_till_stopped: poll returns no readable event: either nothing
\* is pending (timeout) or the pending event is a hang-up with no data.
ReaderPollIdle(g) ==
    /\ rpc[g] = "polling"
    /\ signal # SIG_EXIT
    /\ ~(rdy[g] /\ srcBuf[g] # << >>)
    /\ rdy' = [rdy EXCEPT ![g] = FALSE]
    /\ UNCHANGED << prod, nw, srcBuf, chan >>
    /\ UNCHANGED << supVars, readerVars, writerVars, destVars >>

\* Reader::loop_till_stopped: poll returns a readable event:
\* open_writing_pipes(), then loop_read_pipe(event, ..) begins.  The event's
\* flags are those of the poll: read-closed when no producer is attached.
ReaderPollReadable(g) ==
    /\ rpc[g] = "polling"
    /\ signal # SIG_EXIT
    /\ rdy[g] /\ srcBuf[g] # << >>
    /\ rdy' = [rdy EXCEPT ![g] = FALSE]
    /\ evClosed' = [evClosed EXCEPT ![g] = ~prod[g]]
    /\ wsig' = [wsig EXCEPT ![g] = SIG_RUN]
    /\ rpc' = [rpc EXCEPT ![g] = "draining"]
    /\ UNCHANGED << rfd, disc, readSeq, prod, nw, srcBuf, chan >>
    /\ UNCHANGED << supVars, writerVars, destVars >>

\* Mutant of TrySendResult: the channel is unbounded (mpsc::channel() in
\* place of sync_channel(1)), so a send never finds it full.
TrySendResultUnbounded(isDisc, rxAlive, c) ==
    IF isDisc THEN "skip"
    ELSE IF ~rxAlive THEN "disconnected"
    ELSE "ok"

\* SyncSender::try_send on a channel holding c, as Reader::send_message uses
\* it: "skip" (c.disconnected), "disconnected" (receiver gone), "full", "ok".
TrySendResult(isDisc, rxAlive, c) ==
    IF isDisc THEN "skip"
    ELSE IF ~rxAlive THEN "disconnected"
    ELSE IF Len(c) >= ChannelCapacity THEN "full"
    ELSE "ok"

\* Mutant of the channel after try_send: a send that finds the channel full
\* puts the new line in the place of the one the channel holds.
ChanAfterSendReplace(res, c, m) ==
    IF res = "ok" THEN Append(c, m)
    ELSE IF res = "full" THEN << m >>
    ELSE c

\* The channel after Reader::send_message offered line m to it.
ChanAfterSend(res, c, m) == IF res = "ok" THEN Append(c, m) ELSE c

\* Mutant of DiscAfterSend: the Disconnected error of try_send is ignored
\* like the Full error, so the mark is never set.
DiscAfterSendUnmarked(res, isDisc) == isDisc

\* MessageSender.disconnected after the offer.
DiscAfterSend(res, isDisc) == isDisc \/ res = "disconnected"

\* Reader::loop_read_pipe: the event is read-closed: break; then
\* close_writing_pipes() in loop_till_stopped.
ReaderLeaveClosed(g) ==
    /\ rpc[g] = "draining"
    /\ evClosed[g]
    /\ rpc' = [rpc EXCEPT ![g] = "polling"]
    /\ wsig' = [wsig EXCEPT ![g] = SIG_CLOSE]
    /\ evClosed' = [evClosed EXCEPT ![g] = FALSE]
    /\ UNCHANGED << rfd, disc, readSeq, chan >>
    /\ UNCHANGED << supVars, sourceVars, writerVars, destVars >>

\* Reader::loop_read_pipe: read_line returns a line: send_message(line).
ReaderReadLine(g) ==
    /\ rpc[g] = "draining"
    /\ ~evClosed[g]
    /\ srcBuf[g] # << >>
    /\ LET m == Head(srcBuf[g])
           res(w) == TrySendResult(disc[w], ReceiverAlive(w), chan[w])
       IN  /\ srcBuf' = [srcBuf EXCEPT ![g] = Tail(srcBuf[g])]
           /\ readSeq' = [readSeq EXCEPT ![g] = Append(readSeq[g], m)]
           /\ chan' = [w \in Outputs |->
                         IF InputOf(w) = g /\ wpc[w] # "unborn"
                         THEN ChanAfterSend(res(w), chan[w], m) ELSE chan[w]]
           /\ disc' = [w \in Outputs |->
                         IF InputOf(w) = g /\ wpc[w] # "unborn"
                         THEN DiscAfterSend(res(w), disc[w]) ELSE disc[w]]
    /\ UNCHANGED << rpc, rfd, wsig, evClosed, prod, nw, rdy >>
    /\ UNCHANGED << supVars, writerVars, destVars >>

\* Reader::loop_read_pipe: read_line fails with WouldBlock (no data, a
\* producer attached): thread::sleep(TIME_OUT) and read again.
ReaderWouldBlock(g) ==
    /\ rpc[g] = "draining"
    /\ ~evClosed[g]
    /\ srcBuf[g] = << >>
    /\ prod[g]
    /\ UNCHANGED vars

\* Mutant of ReaderEndOfStream: loop_till_stopped goes back to its poll
\* without close_writing_pipes().
ReaderEndOfStreamStaysOpen(g) ==
    /\ rpc[g] = "draining"
    /\ ~evClosed[g]
    /\ srcBuf[g] = << >>
    /\ ~prod[g]
    /\ rpc' = [rpc EXCEPT ![g] = "polling"]
    /\ UNCHANGED << rfd, wsig, evClosed, disc, readSeq, chan >>
    /\ UNCHANGED << supVars, sourceVars, writerVars, destVars >>

\* Reader::loop_read_pipe: read_line returns 0 bytes (end of stream: no
\* data, no producer): break; then close_writing_pipes().
ReaderEndOfStream(g) ==
    /\ rpc[g] = "draining"
    /\ ~evClosed[g]
    /\ srcBuf[g] = << >>
    /\ ~prod[g]
    /\ rpc' = [rpc EXCEPT ![g] = "polling"]
    /\ wsig' = [wsig EXCEPT ![g] = SIG_CLOSE]
    /\ UNCHANGED << rfd, evClosed, disc, readSeq, chan >>
    /\ UNCHANGED << supVars, sourceVars, writerVars, destVars >>

ReaderStepCode(g) ==
    \/ ReaderStart(g)
    \/ ReaderOpenOk(g)
    \/ ReaderOpenFail(g)
    \/ ReaderPollError(g)
    \/ ReaderPollIdle(g)
    \/ ReaderPollReadable(g)
    \/ ReaderLeaveClosed(g)
    \/ ReaderReadLine(g)
    \/ ReaderWouldBlock(g)
    \/ ReaderEndOfStream(g)

ReaderStep(g) == ReaderStepCode(g) \/ ReaderStop(g)

\* ------------------------------------------------- source FIFO, remote end

\* A producer opens the source FIFO for writing (it needs a reader on it).
ProducerAttach(g) ==
    /\ rfd[g]
    /\ ~prod[g]
    /\ prod' = [prod EXCEPT ![g] = TRUE]
    /\ rdy' = [rdy EXCEPT ![g] = TRUE]
    /\ UNCHANGED << nw, srcBuf, chan >>
    /\ UNCHANGED << supVars, readerVars, writerVars, destVars >>

\* The producer writes its next line, whole.
ProducerWrite(g) ==
    /\ rfd[g]
    /\ prod[g]
    /\ nw[g] < LineBudget(g)
    /\ nw' = [nw EXCEPT ![g] = nw[g] + 1]
    /\ srcBuf' = [srcBuf EXCEPT ![g] = Append(srcBuf[g], nw[g] + 1)]
    /\ rdy' = [rdy EXCEPT ![g] = TRUE]
    /\ UNCHANGED << prod, chan >>
    /\ UNCHANGED << supVars, readerVars, writerVars, destVars >>

\* The producer closes its end.
ProducerDetach(g) ==
    /\ prod[g]
    /\ prod' = [prod EXCEPT ![g] = FALSE]
    /\ rdy' = [rdy EXCEPT ![g] = rfd[g]]
    /\ UNCHANGED << nw, srcBuf, chan >>
    /\ UNCHANGED << supVars, readerVars, writerVars, destVars >>

\* ------------------------------------------------------------------ Writer

\* The Writer thread ends (run_loop returns): its fd and its Receiver are
\* dropped, and a line still in the channel is discarded with the Receiver.
WriterEnds(w) ==
    /\ wpc' = [wpc EXCEPT ![w] = "done"]
    /\ wfd' = [wfd EXCEPT ![w] = FALSE]
    /\ evWClosed' = [evWClosed EXCEPT ![w] = FALSE]
    /\ chan' = [chan EXCEPT ![w] = << >>]

\* The Writer leaves Writing for the top of run_loop (WriteFlow::Restart or
\* WriteFlow::ClosePipe: continue): `sender` goes out of scope, closing the fd.
WriterReturnsToIdle(w) ==
    /\ wpc' = [wpc EXCEPT ![w] = "rl_stop"]
    /\ wfd' = [wfd EXCEPT ![w] = FALSE]
    /\ evWClosed' = [evWClosed EXCEPT ![w] = FALSE]

\* The Writer moves on, keeping its fd as it is.
WriterGoes(w, pc) ==
    /\ wpc' = [wpc EXCEPT ![w] = pc]
    /\ UNCHANGED << wfd, evWClosed >>

\* Mutant of WriterRunLoopStop: run_loop does not test should_stop().
WriterRunLoopStopBlind(w) ==
    /\ wpc[w] = "rl_stop"
    /\ WriterGoes(w, "rl_close")
    /\ UNCHANGED << ignore, out, chan >>
    /\ UNCHANGED << supVars, readerVars, sourceVars, destVars >>

\* Writer::run_loop: if self.should_stop() { break }
WriterRunLoopStop(w) ==
    /\ wpc[w] = "rl_stop"
    /\ IF wsig[InputOf(w)] = SIG_EXIT
       THEN WriterEnds(w)
       ELSE WriterGoes(w, "rl_close") /\ UNCHANGED chan
    /\ UNCHANGED << ignore, out >>
    /\ UNCHANGED << supVars, readerVars, sourceVars, destVars >>

\* Mutant of WriterRunLoopClose: a parked Writer empties its channel
\* (a try_recv before the sleep), so no stale line waits for the reopen.
WriterRunLoopCloseDrains(w) ==
    /\ wpc[w] = "rl_close"
    /\ IF wsig[InputOf(w)] = SIG_CLOSE
       THEN WriterGoes(w, "rl_stop") /\ chan' = [chan EXCEPT ![w] = << >>]
       ELSE WriterGoes(w, "rl_open") /\ UNCHANGED chan
    /\ UNCHANGED << ignore, out >>
    /\ UNCHANGED << supVars, readerVars, sourceVars, destVars >>

\* Writer::run_loop: if self.should_close_pipe() { sleep; continue }
WriterRunLoopClose(w) ==
    /\ wpc[w] = "rl_close"
    /\ IF wsig[InputOf(w)] = SIG_CLOSE
       THEN WriterGoes(w, "rl_stop")
       ELSE WriterGoes(w, "rl_open")
    /\ UNCHANGED << ignore, out, chan >>
    /\ UNCHANGED << supVars, readerVars, sourceVars, destVars >>

\* Writer::run_loop: open_pipe() succeeds (mkfifo Ok or AlreadyExists, then
\* open O_WRONLY | O_NONBLOCK, which needs a consumer on the FIFO); the fd
\* is registered WRITABLE and loop_till_stopped begins.
WriterOpenOk(w) ==
    /\ wpc[w] = "rl_open"
    /\ \E answer \in destFs[w] : RunLoopOpen(answer, cons[w]) = "opened"
    /\ wpc' = [wpc EXCEPT ![w] = "ls_stop"]
    /\ wfd' = [wfd EXCEPT ![w] = TRUE]
    /\ UNCHANGED << ignore, evWClosed, out, chan >>
    /\ UNCHANGED << supVars, readerVars, sourceVars, destVars >>

\* Writer::run_loop: open_pipe() fails with PermissionDenied (or Poll::new /
\* register fails): return Err.
WriterOpenDenied(w) ==
    /\ wpc[w] = "rl_open"
    /\ \E answer \in destFs[w] : RunLoopOpen(answer, cons[w]) = "return_err"
    /\ WriterEnds(w)
    /\ UNCHANGED << ignore, out >>
    /\ UNCHANGED << supVars, readerVars, sourceVars, destVars >>

\* Writer::run_loop: open_pipe() fails with another error (ENXIO with no
\* consumer, NotFound, ...): sleep; continue.
WriterOpenRetry(w) ==
    /\ wpc[w] = "rl_open"
    /\ \E answer \in destFs[w] : RunLoopOpen(answer, cons[w]) = "retry"
    /\ WriterGoes(w, "rl_stop")
    /\ UNCHANGED << ignore, out, chan >>
    /\ UNCHANGED << supVars, readerVars, sourceVars, destVars >>

\* Writer::loop_till_stopped: if self.should_stop() { break } -> Break
WriterLoopStop(w) ==
    /\ wpc[w] = "ls_stop"
    /\ IF wsig[InputOf(w)] = SIG_EXIT
       THEN WriterEnds(w)
       ELSE WriterGoes(w, "ls_close") /\ UNCHANGED chan
    /\ UNCHANGED << ignore, out >>
    /\ UNCHANGED << supVars, readerVars, sourceVars, destVars >>

\* Writer::loop_till_stopped: if self.should_close_pipe() { return ClosePipe }
WriterLoopClose(w) ==
    /\ wpc[w] = "ls_close"
    /\ IF wsig[InputOf(w)] = SIG_CLOSE
       THEN WriterReturnsToIdle(w)
       ELSE WriterGoes(w, "ls_poll")
    /\ UNCHANGED << ignore, out, chan >>
    /\ UNCHANGED << supVars, readerVars, sourceVars, destVars >>

\* Writer::loop_till_stopped: poll returns the writable event of the fd;
\* loop_write_messages(event, ..) begins.  The event is write-closed when no
\* consumer is attached at the poll.
WriterPollWritable(w) ==
    /\ wpc[w] = "ls_poll"
    /\ ~full[w]
    /\ wpc' = [wpc EXCEPT ![w] = "lw_stop"]
    /\ evWClosed' = [evWClosed EXCEPT ![w] = ~cons[w]]
    /\ UNCHANGED wfd
    /\ UNCHANGED << ignore, out, chan >>
    /\ UNCHANGED << supVars, readerVars, sourceVars, destVars >>

\* Writer::loop_till_stopped: poll times out with no event (the FIFO's
\* buffer is full): loop.
WriterPollTimeout(w) ==
    /\ wpc[w] = "ls_poll"
    /\ full[w]
    /\ WriterGoes(w, "ls_stop")
    /\ UNCHANGED << ignore, out, chan >>
    /\ UNCHANGED << supVars, readerVars, sourceVars, destVars >>

\* Writer::loop_till_stopped: poll fails: return WriteFlow::Restart.
WriterPollError(w) ==
    /\ wpc[w] = "ls_poll"
    /\ WriterReturnsToIdle(w)
    /\ UNCHANGED << ignore, out, chan >>
    /\ UNCHANGED << supVars, readerVars, sourceVars, destVars >>

\* Writer::loop_write_messages:
\* if event.is_write_closed() || self.should_stop() { break } -> Break
WriterWriteStop(w) ==
    /\ wpc[w] = "lw_stop"
    /\ IF evWClosed[w] \/ wsig[InputOf(w)] = SIG_EXIT
       THEN WriterEnds(w)
       ELSE WriterGoes(w, "lw_close") /\ UNCHANGED chan
    /\ UNCHANGED << ignore, out >>
    /\ UNCHANGED << supVars, readerVars, sourceVars, destVars >>

\* Mutant of WriterWriteClose: the check is left out of loop_write_messages.
WriterWriteCloseSkipped(w) ==
    /\ wpc[w] = "lw_close"
    /\ WriterGoes(w, "lw_recv")
    /\ UNCHANGED << ignore, out, chan >>
    /\ UNCHANGED << supVars, readerVars, sourceVars, destVars >>

\* Writer::loop_write_messages:
\* if self.should_close_pipe() { return ClosePipe }
WriterWriteClose(w) ==
    /\ wpc[w] = "lw_close"
    /\ IF wsig[InputOf(w)] = SIG_CLOSE
       THEN WriterReturnsToIdle(w)
       ELSE WriterGoes(w, "lw_recv")
    /\ UNCHANGED << ignore, out, chan >>
    /\ UNCHANGED << supVars, readerVars, sourceVars, destVars >>

\* Mutant of WriterDiscard: the latch is left set, so every line received
\* after an EPIPE is discarded.
WriterDiscardSticky(w) ==
    /\ wpc[w] = "lw_recv"
    /\ chan[w] # << >>
    /\ ignore[w]
    /\ chan' = [chan EXCEPT ![w] = Tail(chan[w])]
    /\ WriterGoes(w, "lw_stop")
    /\ UNCHANGED << ignore, out >>
    /\ UNCHANGED << supVars, readerVars, sourceVars, destVars >>

\* Writer::loop_write_messages: recv_timeout returns a line and the latch is
\* set: clear the latch; continue (the line is not written).
WriterDiscard(w) ==
    /\ wpc[w] = "lw_recv"
    /\ chan[w] # << >>
    /\ ignore[w]
    /\ chan' = [chan EXCEPT ![w] = Tail(chan[w])]
    /\ ignore' = [ignore EXCEPT ![w] = FALSE]
    /\ WriterGoes(w, "lw_stop")
    /\ UNCHANGED out
    /\ UNCHANGED << supVars, readerVars, sourceVars, destVars >>

\* Mutant of WriterWriteOk: the line is written but left in the channel (a
\* peek in place of a receive), so the next iteration writes it again.
WriterWriteOkPeek(w) ==
    /\ wpc[w] = "lw_recv"
    /\ chan[w] # << >>
    /\ ~ignore[w]
    /\ cons[w]
    /\ ~full[w]
    /\ out' = [out EXCEPT ![w] = Append(out[w], Head(chan[w]))]
    /\ WriterGoes(w, "lw_stop")
    /\ UNCHANGED << ignore, chan >>
    /\ UNCHANGED << supVars, readerVars, sourceVars, destVars >>

\* Writer::loop_write_messages: recv_timeout returns a line, the latch is
\* clear, and Writer::write returns Ok.
WriterWriteOk(w) ==
    /\ wpc[w] = "lw_recv"
    /\ chan[w] # << >>
    /\ ~ignore[w]
    /\ cons[w]
    /\ ~full[w]
    /\ chan' = [chan EXCEPT ![w] = Tail(chan[w])]
    /\ out' = [out EXCEPT ![w] = Append(out[w], Head(chan[w]))]
    /\ WriterGoes(w, "lw_stop")
    /\ UNCHANGED ignore
    /\ UNCHANGED << supVars, readerVars, sourceVars, destVars >>

\* Mutant of WriterWriteEpipe: BrokenPipe is handled like any other write
\* error: println, and the loop goes on with the same fd and no latch.
WriterWriteEpipeLogged(w) ==
    /\ wpc[w] = "lw_recv"
    /\ chan[w] # << >>
    /\ ~ignore[w]
    /\ ~cons[w]
    /\ chan' = [chan EXCEPT ![w] = Tail(chan[w])]
    /\ WriterGoes(w, "lw_stop")
    /\ UNCHANGED << ignore, out >>
    /\ UNCHANGED << supVars, readerVars, sourceVars, destVars >>

\* Mutant of WriterWriteEpipe: the line whose write failed stays first in
\* the channel, to be written after the reopen; no latch is needed.
WriterWriteEpipeKeeps(w) ==
    /\ wpc[w] = "lw_recv"
    /\ chan[w] # << >>
    /\ ~ignore[w]
    /\ ~cons[w]
    /\ WriterReturnsToIdle(w)
    /\ UNCHANGED << ignore, out, chan >>
    /\ UNCHANGED << supVars, readerVars, sourceVars, destVars >>

\* Writer::loop_write_messages: the write fails with BrokenPipe (EPIPE: no
\* consumer on the FIFO): set the latch; return WriteFlow::Restart.
WriterWriteEpipe(w) ==
    /\ wpc[w] = "lw_recv"
    /\ chan[w] # << >>
    /\ ~ignore[w]
    /\ ~cons[w]
    /\ chan' = [chan EXCEPT ![w] = Tail(chan[w])]
    /\ ignore' = [ignore EXCEPT ![w] = TRUE]
    /\ WriterReturnsToIdle(w)
    /\ UNCHANGED out
    /\ UNCHANGED << supVars, readerVars, sourceVars, destVars >>

\* Mutant of WriterWriteError: the line whose write failed is kept for the
\* next iteration (a retry), not received and dropped.
WriterWriteErrorRetry(w) ==
    /\ wpc[w] = "lw_recv"
    /\ chan[w] # << >>
    /\ ~ignore[w]
    /\ cons[w]
    /\ full[w]
    /\ WriterGoes(w, "lw_stop")
    /\ UNCHANGED << ignore, out, chan >>
    /\ UNCHANGED << supVars, readerVars, sourceVars, destVars >>

\* Writer::loop_write_messages: the write fails with another error
\* (WouldBlock, the FIFO being full): println; the loop goes on.
WriterWriteError(w) ==
    /\ wpc[w] = "lw_recv"
    /\ chan[w] # << >>
    /\ ~ignore[w]
    /\ cons[w]
    /\ full[w]
    /\ chan' = [chan EXCEPT ![w] = Tail(chan[w])]
    /\ WriterGoes(w, "lw_stop")
    /\ UNCHANGED << ignore, out >>
    /\ UNCHANGED << supVars, readerVars, sourceVars, destVars >>

\* Writer::loop_write_messages: recv_timeout times out (channel empty, the
\* Reader alive): sleep; continue.
WriterRecvTimeout(w) ==
    /\ wpc[w] = "lw_recv"
    /\ chan[w] = << >>
    /\ SenderAlive(InputOf(w))
    /\ WriterGoes(w, "lw_stop")
    /\ UNCHANGED << ignore, out, chan >>
    /\ UNCHANGED << supVars, readerVars, sourceVars, destVars >>

\* Writer::loop_write_messages: recv_timeout reports Disconnected (channel
\* empty, the Reader dropped): return WriteFlow::Break.
WriterRecvDisconnected(w) ==
    /\ wpc[w] = "lw_recv"
    /\ chan[w] = << >>
    /\ ~SenderAlive(InputOf(w))
    /\ WriterEnds(w)
    /\ UNCHANGED << ignore, out >>
    /\ UNCHANGED << supVars, readerVars, sourceVars, destVars >>

WriterStep(w) ==
    \/ WriterRunLoopStop(w)
    \/ WriterRunLoopClose(w)
    \/ WriterOpenOk(w)
    \/ WriterOpenDenied(w)
    \/ WriterOpenRetry(w)
    \/ WriterLoopStop(w)
    \/ WriterLoopClose(w)
    \/ WriterPollWritable(w)
    \/ WriterPollTimeout(w)
    \/ WriterPollError(w)
    \/ WriterWriteStop(w)
    \/ WriterWriteClose(w)
    \/ WriterDiscard(w)
    \/ WriterWriteOk(w)
    \/ WriterWriteEpipe(w)
    \/ WriterWriteError(w)
    \/ WriterRecvTimeout(w)
    \/ WriterRecvDisconnected(w)

\* -------------------------------------------- destination FIFO, remote end

\* A consumer opens the destination FIFO for reading (the FIFOs of disabled
\* outputs are no part of the run).
ConsumerAttach(w) ==
    /\ outEnabled[w]
    /\ ~cons[w]
    /\ cons' = [cons EXCEPT ![w] = TRUE]
    /\ UNCHANGED full
    /\ UNCHANGED destFs
    /\ UNCHANGED chan
    /\ UNCHANGED << supVars, readerVars, sourceVars, writerVars >>

\* The consumer closes its end.
ConsumerDetach(w) ==
    /\ cons[w]
    /\ cons' = [cons EXCEPT ![w] = FALSE]
    /\ full' = [full EXCEPT ![w] = FALSE]
    /\ UNCHANGED chan
    /\ UNCHANGED destFs
    /\ UNCHANGED << supVars, readerVars, sourceVars, writerVars >>

\* The consumer stops reading and the FIFO's buffer fills up.
ConsumerStalls(w) ==
    /\ cons[w]
    /\ ~full[w]
    /\ full' = [full EXCEPT ![w] = TRUE]
    /\ UNCHANGED << cons, chan >>
    /\ UNCHANGED destFs
    /\ UNCHANGED << supVars, readerVars, sourceVars, writerVars >>

\* The consumer reads again and the buffer has room.
ConsumerResumes(w) ==
    /\ full[w]
    /\ full' = [full EXCEPT ![w] = FALSE]
    /\ UNCHANGED << cons, chan >>
    /\ UNCHANGED destFs
    /\ UNCHANGED << supVars, readerVars, sourceVars, writerVars >>

\* ---------------------------------------------------------- specifications

Environment ==
    \/ \E g \in Inputs : ProducerAttach(g) \/ ProducerWrite(g) \/ ProducerDetach(g)
    \/ \E w \in Outputs : ConsumerAttach(w) \/ ConsumerDetach(w)
    \/ \E w \in Outputs : ConsumerStalls(w) \/ ConsumerResumes(w)

\* The program as it is: nothing in it sets the process-wide signal to
\* SIG_EXIT, so the branch ReaderStop is never taken.
NextCode ==
    \/ SupSpawn
    \/ SupSleep
    \/ \E g \in Inputs : ReaderStepCode(g)
    \/ \E w \in Outputs : WriterStep(w)
    \/ Environment

\* The program with the process-wide signal as an input: its holder may
\* store SIG_EXIT in it, and the Readers then take the branch ReaderStop.
Next ==
    \/ NextCode
    \/ SupervisorShutdown
    \/ \E g \in Inputs : ReaderStop(g)

Spec == Init /\ [][Next]_vars

SpecCode == Init /\ [][NextCode]_vars

SpecTwo == InitTwo /\ [][NextCode]_vars

\* The code, under each single answer of the operating system to the opens
\* of one Writer.
SpecOpen == InitOpen /\ [][NextCode]_vars

\* The startup of split_pipes.
NextStartup ==
    \/ SupLoad
    \/ SupCreateThreads
    \/ \E k \in 1..Len(readers) : ReaderStartWriteChannels(k)
    \/ SupSleep

\* The startup, over every configuration file of the model.
SpecStartup == InitStartup /\ [][NextStartup]_vars

\* Every thread is scheduled again and again; the remote ends of the FIFOs
\* and the failures of system calls owe nothing.
\* A system call that can succeed does not fail for ever (WriterOpenOk,
\* WriterPollWritable).
ThreadFairness ==
    /\ WF_vars(SupSpawn)
    /\ \A g \in Inputs : WF_vars(ReaderStep(g))
    /\ \A w \in Outputs : /\ WF_vars(WriterStep(w))
                           /\ SF_vars(WriterOpenOk(w))
                           /\ SF_vars(WriterPollWritable(w))

FairSpec == Spec /\ ThreadFairness

FairSpecCode == SpecCode /\ ThreadFairness

FairSpecTwo == SpecTwo /\ ThreadFairness

\* ------------------------------------------------------------ properties

Range(q) == {q[i] : i \in DOMAIN q}

RECURSIVE IsSubseq(_, _)
\* s is t with some elements left out, the others in t's order.
IsSubseq(s, t) ==
    IF s = << >> THEN TRUE
    ELSE IF t = << >> THEN FALSE
    ELSE IF Head(s) = Head(t) THEN IsSubseq(Tail(s), Tail(t))
    ELSE IsSubseq(s, Tail(t))

\* The step is a fan-out by the Reader of g (of the line Head(srcBuf[g])).
FansOut(g) == readSeq'[g] # readSeq[g]

\* The step is a receive by the Writer w from its channel.
Receives(w) ==
    /\ wpc[w] = "lw_recv"
    /\ chan[w] # << >>
    /\ chan'[w] = Tail(chan[w])

\* C1: when the Reader fans a line out and the channel of a non-disconnected
\* destination w already holds a line, the send leaves w's channel (and w's
\* disconnected mark) as it was, the Reader goes on draining, and every
\* other non-disconnected destination v is still offered the line: it is
\* enqueued if v's channel is empty, and v is marked disconnected if v's
\* Writer is gone.
C1_DropOnFull ==
    [][\A g \in Inputs : FansOut(g) =>
         /\ rpc'[g] = "draining"
         /\ \A w \in OutputsOf(g) :
              (wpc[w] # "unborn" /\ ~disc[w] /\ chan[w] # << >>) =>
                 /\ chan'[w] = chan[w]
                 /\ disc'[w] = disc[w]
                 /\ \A v \in OutputsOf(g) \ {w} :
                      (wpc[v] # "unborn" /\ ~disc[v]) =>
                         /\ (ReceiverAlive(v) /\ chan[v] = << >>)
                               => chan'[v] = << Head(srcBuf[g]) >>
                         /\ ~ReceiverAlive(v) => disc'[v]
      ]_vars

\* C1 witness: line 2 was dropped for w, whose channel still holds line 1,
\* and was enqueued for v.
C1_Witness ==
    \E w \in Outputs : \E v \in Outputs \ {w} :
        /\ readSeq[InputOf(w)] = << 1, 2 >>
        /\ chan[w] = << 1 >>
        /\ chan[v] = << 2 >>

\* C2: the lines written to a destination FIFO are a subsequence of the
\* lines the Reader read from the source: lines may be missing, never
\* reordered (nor repeated).
C2_Ordering ==
    \A w \in Outputs : IsSubseq(out[w], readSeq[InputOf(w)])

\* C2 witness: lines 1 and 3 were written, in this order; line 2 is missing.
C2_Witness ==
    \E w \in Outputs : out[w] = << 1, 3 >> /\ readSeq[InputOf(w)] = << 1, 2, 3 >>

\* Line m was taken out of w's channel, or dropped with it, unwritten.
Lost(w, m) ==
    /\ m \in Range(readSeq[InputOf(w)])
    /\ m \notin Range(chan[w])
    /\ m \notin Range(out[w])

\* What the delivery of a line enqueued for w is not promised under: no
\* consumer attached, a write error (the FIFO full, or the latch set by an
\* earlier EPIPE), or the line lost to one of these or to the Writer's end.
Excused(w, m) == ~cons[w] \/ full[w] \/ ignore[w] \/ Lost(w, m)

\* C3 as claimed: a line enqueued for destination w is eventually written to
\* w's FIFO, whatever the producer does next, as long as a consumer stays
\* attached and no write error occurs.
C3_Delivery ==
    \A w \in Outputs : \A m \in 1..MaxLines :
        (chan[w] = << m >>) ~> (m \in Range(out[w]) \/ Excused(w, m))

\* C4 as claimed: every line the producer wrote into the source FIFO is
\* eventually read by the Reader (and with that fanned out), as long as the
\* Reader lives.
C4_ForwardsEveryLine ==
    \A g \in Inputs : \A m \in 1..MaxLines :
        (m \in Range(srcBuf[g])) ~> (m \in Range(readSeq[g]) \/ rpc[g] = "done")

\* C5 as claimed: a fan-out enqueues the line to a destination exactly when
\* that destination's own channel is connected and empty, whatever the state
\* of the other channels, and the Reader goes on draining; and while another
\* destination d1 never drains its channel, every line enqueued to d2 is
\* still written to d2 (as long as d2's consumer stays attached and no
\* write error occurs).
C5_Isolation ==
    /\ [][\A g \in Inputs : FansOut(g) =>
            /\ rpc'[g] = "draining"
            /\ \A v \in OutputsOf(g) :
                 chan'[v] = IF /\ wpc[v] # "unborn" /\ ~disc[v]
                               /\ ReceiverAlive(v) /\ chan[v] = << >>
                            THEN << Head(srcBuf[g]) >>
                            ELSE chan[v]
         ]_vars
    /\ \A d1 \in Outputs : \A d2 \in Outputs \ {d1} : \A m \in 1..MaxLinesTwo :
          (chan[d2] = << m >> /\ chan[d1] # << >>)
             ~> (m \in Range(out[d2]) \/ Excused(d2, m) \/ chan[d1] = << >>)

\* C6: a write that fails with EPIPE (a received line, the latch clear, no
\* consumer) writes nothing, drops the fd, sets the latch and leaves the
\* Writer at the top of run_loop, alive; a line received with the latch set
\* is discarded unwritten and clears the latch; a line received with the
\* latch clear while the consumer is attached and reading is written; and
\* the latch changes at no other step than a receive.
C6_EpipeRecovery ==
    [][\A w \in Outputs :
         /\ ignore'[w] # ignore[w] => Receives(w)
         /\ Receives(w) =>
              /\ (~ignore[w] /\ ~cons[w]) =>
                    /\ out'[w] = out[w]
                    /\ ~wfd'[w]
                    /\ ignore'[w]
                    /\ wpc'[w] = "rl_stop"
              /\ ignore[w] =>
                    /\ out'[w] = out[w]
                    /\ ~ignore'[w]
                    /\ wfd'[w] /\ wpc'[w] \in WritingPcs
              /\ (~ignore[w] /\ cons[w] /\ ~full[w]) =>
                    /\ out'[w] = Append(out[w], Head(chan[w]))
                    /\ ~ignore'[w]
      ]_vars

\* C6 witness: after an EPIPE (the latch is set) the consumer is back, the
\* Writer has reopened the destination and is about to receive line 2.
C6_Witness ==
    \E w \in Outputs :
        /\ ignore[w] /\ cons[w] /\ wfd[w]
        /\ wpc[w] = "lw_recv"
        /\ chan[w] = << 2 >>
        /\ out[w] = << >>

\* C7 as claimed: whenever the Reader is Polling and the writer-state is
\* CLOSE, every Writer of the group is Idle and holds no fd.
C7_ParkedWriters ==
    \A g \in Inputs : (rpc[g] = "polling" /\ wsig[g] = SIG_CLOSE) =>
        \A w \in OutputsOf(g) :
            /\ ~wfd[w]
            /\ ReceiverAlive(w) => wpc[w] \in ParkedPcs

\* C7 amended: a Writer that checks the writer-state (should_close_pipe)
\* while it is CLOSE is parked by that check: it is left at the top of
\* run_loop with its fd closed, whether it was Idle or Writing; and from the
\* top of run_loop it goes nowhere but to that check (or to its end).
C7_ParkedOnCheck ==
    [][\A w \in Outputs :
         (wsig[InputOf(w)] = SIG_CLOSE /\ wpc'[w] # wpc[w]) =>
            /\ wpc[w] \in {"rl_close", "ls_close", "lw_close"} =>
                  (wpc'[w] = "rl_stop" /\ ~wfd'[w] /\ out'[w] = out[w]
                     /\ chan'[w] = chan[w])
            /\ wpc[w] = "rl_stop" => (wpc'[w] = "rl_close" /\ ~wfd'[w])
      ]_vars

\* C7 witness: the Reader is back in Polling with the writer-state CLOSE, and
\* a Writer that has written a line still holds its fd, about to check.
C7_Witness ==
    \E w \in Outputs :
        /\ rpc[InputOf(w)] = "polling"
        /\ wsig[InputOf(w)] = SIG_CLOSE
        /\ wpc[w] = "lw_close" /\ wfd[w]
        /\ out[w] # << >>

\* C8 as claimed: once the process-wide signal is EXIT, the Reader
\* eventually publishes EXIT on its writer-state and returns, and every
\* Writer it owns terminates.
C8_ShutdownPropagation ==
    \A g \in Inputs :
        (signal = SIG_EXIT /\ rpc[g] # "unborn")
           ~> (/\ rpc[g] = "done"
               /\ wsig[g] = SIG_EXIT
               /\ \A w \in OutputsOf(g) : wpc[w] \in {"unborn", "done"})

\* C9 as claimed: once the Supervisor has spawned its Input Tasks it has a
\* step that moves the process-wide signal from RUN to EXIT.
C9_SupervisorPublishesExit ==
    (supPc = "idle" /\ signal = SIG_RUN) =>
        ENABLED ((SupSpawn \/ SupSleep) /\ signal' = SIG_EXIT)

\* C10: once a group's writer-state is EXIT it is EXIT in every later state.
C10_ExitIsFinal ==
    [][\A g \in Inputs : wsig[g] = SIG_EXIT => wsig'[g] = SIG_EXIT]_vars

\* C10 witness: the Reader has published EXIT after a run in which the
\* writer-state was RUN and CLOSE (a line was read and written).
C10_Witness ==
    \E w \in Outputs :
        /\ wsig[InputOf(w)] = SIG_EXIT
        /\ rpc[InputOf(w)] = "done"
        /\ out[w] # << >>

\* The holders of the SyncSender of channel c: the places (Reader thread,
\* position in its send_channels) where it is kept.
Senders(c) ==
    {s \in (1..Len(readers)) \X (1..Len(writers)) :
        /\ s[2] <= Len(readers[s[1]].send_channels)
        /\ readers[s[1]].send_channels[s[2]] = c}

\* The holders of the Receiver of channel c: the Writer threads it was
\* moved into.
Receivers(c) == {v \in 1..Len(writers) : writers[v].receiver = c}

\* The Writer threads spawned on the destination FIFO w.
WritersOn(w) ==
    {v \in 1..Len(writers) : writers[v].pipe = PipePath(get_root_directory(ini), w)}

\* Each channel created has one sender, kept by the Reader of its group, and
\* one receiver, a Writer of that group; the Writer running on w is the one
\* Writer thread spawned on w.
EndExclusive ==
    /\ \A c \in 1..Len(writers) :
          /\ Cardinality(Senders(c)) = 1
          /\ Cardinality(Receivers(c)) = 1
          /\ \A s \in Senders(c) : \A v \in Receivers(c) :
                readers[s[1]].entry = writers[v].entry
    /\ \A w \in Outputs : wpc[w] # "unborn" => Cardinality(WritersOn(w)) = 1

\* C11: in every reachable state each Reader-to-Writer channel holds at most
\* ChannelCapacity (one) line; each channel created has exactly one sender,
\* held by the Reader of its group, and exactly one receiver, held by one
\* Writer; and the content of w's channel changes only in a fan-out of the
\* Reader of w's group, which appends the line it read, or in a step of the
\* Writer of w, which receives the first line or ends (dropping the
\* Receiver and what the channel holds).
C11_ChannelCapacity ==
    /\ [](\A w \in Outputs : Len(chan[w]) <= ChannelCapacity)
    /\ []EndExclusive
    /\ [][\A w \in Outputs :
            chan'[w] # chan[w] =>
                \/ /\ FansOut(InputOf(w))
                   /\ chan'[w] = Append(chan[w], Head(srcBuf[InputOf(w)]))
                \/ Receives(w)
                \/ /\ wpc[w] # "done"
                   /\ wpc'[w] = "done"
                   /\ chan'[w] = << >>]_vars

\* C11 witness: both channels of the group are created and hold a line, the
\* second line read having found both of them full.
C11_Witness ==
    /\ Len(writers) = 2
    /\ \A w \in Outputs : chan[w] = << 1 >>
    /\ Len(readSeq["a"]) = 2

\* The step takes the first line out of w's channel.
LeavesChannel(w) == chan[w] # << >> /\ chan'[w] # chan[w] /\ ~FansOut(InputOf(w))

\* A line the Reader has read and w's channel does not hold is never in
\* w's channel later: it enters the channel in the fan-out of its read or
\* never.
NeverRetried(w) ==
    \A m \in Range(readSeq[InputOf(w)]) :
        m \notin Range(chan[w]) => m \notin Range(chan'[w])

\* C12 as claimed: a line fanned out is left out of the channel of a
\* spawned destination only when that channel already holds a line; a line
\* that leaves the channel is written to the destination FIFO; and a line
\* that was dropped never enters the channel later.
C12_DropOnlyOnFull ==
    [][\A w \in Outputs :
         /\ (FansOut(InputOf(w)) /\ wpc[w] # "unborn" /\ chan'[w] = chan[w])
               => chan[w] # << >>
         /\ LeavesChannel(w) => out'[w] = Append(out[w], Head(chan[w]))
         /\ NeverRetried(w)
      ]_vars

\* C12 amended: a line fanned out is left out of the channel of a spawned
\* destination only when that channel already holds a line or its Writer
\* has ended (the send reports Disconnected, or the destination is marked
\* disconnected and skipped); a dropped line never enters the channel
\* later; and a line leaves the channel only when its Writer receives it or
\* ends: a received line is written, unless the latch is set (discarded),
\* no consumer is attached (EPIPE) or the write fails otherwise (logged),
\* and in those cases it is written nowhere.
C12_DropCauses ==
    [][\A w \in Outputs :
         /\ (FansOut(InputOf(w)) /\ wpc[w] # "unborn") =>
               \/ chan'[w] = Append(chan[w], Head(srcBuf[InputOf(w)]))
               \/ /\ chan'[w] = chan[w]
                  /\ chan[w] # << >> \/ disc[w] \/ ~ReceiverAlive(w)
         /\ NeverRetried(w)
         /\ LeavesChannel(w) =>
               \/ /\ Receives(w)
                  /\ ~ignore[w] /\ cons[w] /\ ~full[w]
                  /\ out'[w] = Append(out[w], Head(chan[w]))
               \/ /\ Receives(w)
                  /\ ignore[w] \/ ~cons[w] \/ full[w]
                  /\ out'[w] = out[w]
               \/ /\ wpc[w] # "done" /\ wpc'[w] = "done"
                  /\ out'[w] = out[w]
      ]_vars

\* C12 witness: three lines were fanned out; the first two are written
\* nowhere and are in the channel no more, the third is written.
C12_Witness ==
    \E w \in Outputs :
        /\ readSeq[InputOf(w)] = << 1, 2, 3 >>
        /\ out[w] = << 3 >>
        /\ chan[w] = << >>

\* The Reader threads spawned for the i-th entry of the configuration.
ReadersOf(i) == {k \in 1..Len(readers) : readers[k].entry = i}

\* The Writer threads spawned for the j-th output of the i-th entry.
WritersOf(i, j) ==
    {v \in 1..Len(writers) : writers[v].entry = i /\ writers[v].output = j}

\* C13: once the Supervisor has created its threads, every entry of the
\* parsed configuration has exactly one Reader if it is enabled and one of
\* its outputs is, and none otherwise; and a Reader that has started its
\* write channels has, for each output of its entry, exactly one Writer
\* with a channel of its own (whose sender the Reader keeps) if the output
\* is enabled, and none if it is disabled.  No thread exists before, nor
\* when the load fails or yields no entry.
C13_EnabledFilter ==
    /\ supPc # "idle" => (readers = << >> /\ writers = << >>)
    /\ supPc = "idle" =>
          \A i \in 1..Len(loaded.list) :
              LET input == loaded.list[i]
                  wanted == /\ input.enabled
                            /\ \E j \in 1..Len(input.outputs) : input.outputs[j].enabled
              IN  /\ Cardinality(ReadersOf(i)) = IF wanted THEN 1 ELSE 0
                  /\ \A k \in ReadersOf(i) : \A j \in 1..Len(input.outputs) :
                        /\ Cardinality(WritersOf(i, j)) =
                              IF readers[k].started /\ input.outputs[j].enabled
                              THEN 1 ELSE 0
                        /\ \A v \in WritersOf(i, j) :
                              /\ writers[v].pipe = input.outputs[j].pipe
                              /\ Senders(writers[v].receiver) \subseteq {k} \X (1..Len(writers))
                              /\ Cardinality(Senders(writers[v].receiver)) = 1
                              /\ Receivers(writers[v].receiver) = {v}
                  /\ ~wanted => \A j \in 1..Len(input.outputs) : WritersOf(i, j) = {}

\* C13 witness: of two enabled inputs the first has a disabled output only
\* and gets no Reader; the second has a disabled and an enabled output, in
\* this order, and its Reader has spawned the one Writer, for the second.
C13_Witness ==
    /\ supPc = "idle"
    /\ Len(loaded.list) = 2
    /\ loaded.list[1].enabled /\ Len(loaded.list[1].outputs) = 1
    /\ loaded.list[2].enabled /\ Len(loaded.list[2].outputs) = 2
    /\ ~loaded.list[2].outputs[1].enabled
    /\ Len(readers) = 1 /\ readers[1].entry = 2 /\ readers[1].started
    /\ Len(writers) = 1 /\ writers[1].output = 2

\* The FIFO paths the loaded configuration names, as sources or as
\* destinations.
Paths ==
    {loaded.list[i].pipe : i \in 1..Len(loaded.list)}
      \cup UNION {{loaded.list[i].outputs[j].pipe : j \in 1..Len(loaded.list[i].outputs)} :
                    i \in 1..Len(loaded.list)}

\* C14 as claimed: whatever configuration the parser accepted, at most one
\* Reader thread has a FIFO path as its source and at most one Writer
\* thread has it as its destination, over all the groups.
C14_PathExclusivity ==
    \A p \in Paths :
        /\ Cardinality({k \in 1..Len(readers) : loaded.list[readers[k].entry].pipe = p}) <= 1
        /\ Cardinality({v \in 1..Len(writers) : writers[v].pipe = p}) <= 1

\* The error Parser::parse_config gives for a document with no [PIPES].
NeedsPipesSection == ConfigurationError("configuration must contain a 'PIPES' section")

\* split_pipes is over and has spawned no Reader and no Writer thread.
AbortedBeforeSpawn == supPc = "panicked" /\ readers = << >> /\ writers = << >>

\* C15 as claimed: once split_pipes has loaded a configuration file (one
\* that Ini::load_from_file reads) that has no [PIPES] section, the load
\* has returned the Configuration error "configuration must contain a
\* 'PIPES' section" and the startup is over with no thread spawned.
C15_MissingPipes ==
    (supPc # "load" /\ fsys # "unreadable" /\ ~ini.pipes.present) =>
        /\ ~loaded.ok /\ loaded.err = NeedsPipesSection
        /\ AbortedBeforeSpawn

\* C15 amended: for a configuration file with no [PIPES] section the load
\* returns a Configuration error and the startup is over with no thread
\* spawned; the error is "configuration must contain a 'PIPES' section"
\* when the root directory exists or can be created, and "Could not create
\* pipe root directory" when it cannot, whatever sections the file has.
C15_MissingPipesAfterRoot ==
    (supPc # "load" /\ fsys # "unreadable" /\ ~ini.pipes.present) =>
        /\ ~loaded.ok /\ loaded.list = << >>
        /\ loaded.err = IF fsys = "ok" THEN NeedsPipesSection
                        ELSE ConfigurationError("Could not create pipe root directory")
        /\ AbortedBeforeSpawn

\* C15 witness: a file with the sections of two inputs, outputs in both,
\* and no [PIPES] section was loaded with the root directory in place.
C15_Witness ==
    /\ supPc = "panicked"
    /\ fsys = "ok"
    /\ ~ini.pipes.present
    /\ \A n \in InNames : ini.sections[n].present /\ Len(ini.sections[n].props) = 2
    /\ loaded.err = NeedsPipesSection

\* The modes a configuration string may name, in lower case.
KnownModes == { << "r", "t" >>, << "r", "b" >>, << "w", "t" >>, << "w", "b" >> }

\* The configuration string is not empty and has a second comma-separated
\* field that is none of rt, rb, wt, wb in any case.
Offending(config) ==
    /\ config # << >>
    /\ Len(split(config, ",")) >= 2
    /\ to_lowercase(split(config, ",")[2]) \notin KnownModes

\* The configuration strings of an input of [PIPES] and of its outputs (the
\* keys of the section named after it), in the order of the document.
StringsOfInput(conf, p) ==
    << p.value >> \o [j \in 1..Len(conf.sections[p.key].props) |->
                       conf.sections[p.key].props[j].value]

RECURSIVE ConfigStringsFrom(_, _)
\* The configuration strings of the inputs from the i-th on and of their
\* outputs, in the order of the document.
ConfigStringsFrom(conf, i) ==
    IF i > Len(conf.pipes.props) THEN << >>
    ELSE StringsOfInput(conf, conf.pipes.props[i]) \o ConfigStringsFrom(conf, i + 1)

\* The configuration strings of every input and output of the document.
ConfigStrings(conf) == ConfigStringsFrom(conf, 1)

\* The positions of the offending strings among ConfigStrings(conf).
Offenders(conf) ==
    {n \in 1..Len(ConfigStrings(conf)) : Offending(ConfigStrings(conf)[n])}

\* Every entry and output parsed from an empty configuration string has
\* the default of its side: enabled, text mode.
EmptyIsDefault ==
    \A i \in 1..Len(loaded.list) :
        /\ ini.pipes.props[i].value = << >> =>
              (loaded.list[i].enabled /\ loaded.list[i].mode = "StringRead")
        /\ \A j \in 1..Len(loaded.list[i].outputs) :
              ini.sections[ini.pipes.props[i].key].props[j].value = << >> =>
                 /\ loaded.list[i].outputs[j].enabled
                 /\ loaded.list[i].outputs[j].mode = "StringWrite"

\* C16 as claimed: once a configuration file is loaded, for every input or
\* output of it whose configuration string is offending the load has
\* failed with the Configuration error "Unknown operation type '<field>'",
\* <field> being the second field of that string as written, and has
\* yielded no SplitIn; and every input or output with an empty string has
\* the default of its side.
C16_UnknownMode ==
    (supPc # "load" /\ fsys # "unreadable") =>
        /\ \A n \in Offenders(ini) :
              /\ ~loaded.ok /\ loaded.list = << >>
              /\ loaded.err = UnknownOperationType(split(ConfigStrings(ini)[n], ",")[2])
        /\ EmptyIsDefault

\* C16 amended: once a configuration file is loaded whose root directory is
\* in place, if an input or output of it has an offending configuration
\* string the load has failed with the Configuration error "Unknown
\* operation type '<field>'", <field> being the second field, as written,
\* of the first offending string in the order of the document (each input
\* followed by its outputs), and has yielded no SplitIn, and the startup is
\* over with no thread; if none has, the load has succeeded; and every
\* input or output with an empty string has the default of its side.
C16_FirstUnknownMode ==
    (supPc # "load" /\ fsys = "ok") =>
        /\ Offenders(ini) # {} =>
              LET first == CHOOSE n \in Offenders(ini) :
                               \A o \in Offenders(ini) : n <= o
              IN  /\ ~loaded.ok /\ loaded.list = << >>
                  /\ loaded.err =
                        UnknownOperationType(split(ConfigStrings(ini)[first], ",")[2])
                  /\ AbortedBeforeSpawn
        /\ (Offenders(ini) = {} /\ ini.pipes.present) => loaded.ok
        /\ EmptyIsDefault

\* C16 witness: the first input is listed with an empty string, its second
\* output has the mode wF after a first output with the mode WT, and the
\* second input has an empty mode: the load has failed naming wF.
C16_Witness ==
    /\ supPc = "panicked"
    /\ fsys = "ok"
    /\ Len(ini.pipes.props) = 2
    /\ ini.pipes.props[1].value = << >>
    /\ ini.pipes.props[2].value = << "1", "," >>
    /\ LET sec == ini.sections[ini.pipes.props[1].key]
       IN  /\ Len(sec.props) = 2
           /\ sec.props[1].value = << "1", ",", "W", "T" >>
           /\ sec.props[2].value = << "1", ",", "w", "F" >>
    /\ loaded.err = UnknownOperationType(<< "w", "F" >>)

\* C17: once a configuration file is loaded that has a [PIPES] section and
\* no offending string (and whose root directory is in place), the load has
\* yielded one SplitIn per entry of [PIPES], in the order of the section,
\* each on the path of its key; and the outputs of each SplitIn are as many
\* as the keys of the section named after the input, in the order and on
\* the paths of these keys, and none when there is no such section.
C17_ConfigShape ==
    (supPc # "load" /\ fsys = "ok" /\ ini.pipes.present /\ Offenders(ini) = {}) =>
        /\ loaded.ok
        /\ Len(loaded.list) = Len(ini.pipes.props)
        /\ \A i \in 1..Len(ini.pipes.props) :
              LET key == ini.pipes.props[i].key
                  outputs == loaded.list[i].outputs
              IN  /\ loaded.list[i].pipe = << get_root_directory(ini), "/", key >>
                  /\ ~ini.sections[key].present => outputs = << >>
                  /\ Len(outputs) = Len(ini.sections[key].props)
                  /\ \A j \in 1..Len(outputs) :
                        outputs[j].pipe =
                           << get_root_directory(ini), "/", ini.sections[key].props[j].key >>

\* C17 witness: a loaded configuration of two inputs, the first with no
\* section of its own, the second with a section of two keys of which the
\* first is disabled.
C17_Witness ==
    /\ supPc # "load"
    /\ loaded.ok
    /\ Len(loaded.list) = 2
    /\ ~ini.sections[ini.pipes.props[1].key].present
    /\ loaded.list[1].outputs = << >>
    /\ Len(loaded.list[2].outputs) = 2
    /\ ~loaded.list[2].outputs[1].enabled
    /\ loaded.list[2].outputs[2].enabled

\* C18: the writer-state of a group is CLOSE from the Reader's construction
\* and whenever the Reader is Polling; it is RUN exactly while the Reader is
\* Draining: the step that enters Draining sets RUN, the step that leaves
\* Draining sets CLOSE, and the only other change of the writer-state is
\* the EXIT the Reader publishes when it ends.
C18_WriterStateCoupling ==
    /\ [](\A g \in Inputs :
            /\ rpc[g] \in {"unborn", "start", "open", "polling"} => wsig[g] = SIG_CLOSE
            /\ wsig[g] = SIG_RUN <=> rpc[g] = "draining")
    /\ [][\A g \in Inputs :
            /\ (rpc[g] # "draining" /\ rpc'[g] = "draining") =>
                  (rpc[g] = "polling" /\ wsig'[g] = SIG_RUN)
            /\ (rpc[g] = "draining" /\ rpc'[g] # "draining") =>
                  (rpc'[g] = "polling" /\ wsig'[g] = SIG_CLOSE)
            /\ wsig'[g] # wsig[g] =>
                  \/ rpc[g] # "draining" /\ rpc'[g] = "draining"
                  \/ rpc[g] = "draining" /\ rpc'[g] # "draining"
                  \/ rpc'[g] = "done" /\ wsig'[g] = SIG_EXIT]_vars

\* C18 witness: the Reader is back in Polling after a second burst (two
\* lines read, the second one under its own event), the writer-state CLOSE
\* again, while the Writer still holds its fd.
C18_Witness ==
    \E w \in Outputs :
        /\ rpc[InputOf(w)] = "polling"
        /\ wsig[InputOf(w)] = SIG_CLOSE
        /\ readSeq[InputOf(w)] = << 1, 2 >>
        /\ out[w] = << 1 >>
        /\ chan[w] = << 2 >>
        /\ wfd[w]

\* C19: under fair scheduling of the threads, once the writer-state of a
\* group is EXIT every Writer of the group ends, whatever its position
\* (Idle, Opening, Writing, its channel empty or not); a Writer in Writing
\* whose channel is disconnected (the Reader and its SyncSender are gone)
\* ends; and a Writer that has ended stays so and never holds an fd on its
\* destination again.
C19_WriterTermination ==
    /\ \A w \in Outputs :
          (wsig[InputOf(w)] = SIG_EXIT) ~> (wpc[w] \in {"unborn", "done"})
    /\ \A w \in Outputs :
          (wpc[w] \in WritingPcs /\ ~SenderAlive(InputOf(w))) ~> (wpc[w] = "done")
    /\ [][\A w \in Outputs :
            wpc[w] = "done" => (wpc'[w] = "done" /\ ~wfd'[w] /\ out'[w] = out[w])]_vars

\* C19 witness: the writer-state is EXIT and the Writer has ended, after it
\* wrote the first of two lines read.
C19_Witness ==
    \E w \in Outputs :
        /\ wsig[InputOf(w)] = SIG_EXIT
        /\ wpc[w] = "done"
        /\ ~wfd[w]
        /\ Len(readSeq[InputOf(w)]) = 2
        /\ out[w] = << 1 >>

\* C20 as claimed: a Writer in Writing under a writable event that reports
\* write-closed, while the writer-state is not EXIT and the channel is
\* connected, leaves Writing for the top of run_loop with its fd dropped
\* (Recovering, then Opening): it stays alive and does not end.
C20_WriteClosedRecovery ==
    [][\A w \in Outputs :
         (/\ wpc[w] = "lw_stop" /\ evWClosed[w]
          /\ wsig[InputOf(w)] # SIG_EXIT /\ SenderAlive(InputOf(w))
          /\ wpc'[w] # wpc[w])
            => (wpc'[w] = "rl_stop" /\ ~wfd'[w] /\ ReceiverAlive(w)')
      ]_vars

\* The step leaves everything of the Reader, of the signals, of the
\* channels and of every Writer but w as it was.
OnlyWriter(w) ==
    /\ UNCHANGED << readerVars, signal, supPc >>
    /\ \A v \in Outputs \ {w} :
          /\ wpc'[v] = wpc[v] /\ wfd'[v] = wfd[v] /\ ignore'[v] = ignore[v]
          /\ out'[v] = out[v] /\ chan'[v] = chan[v]

\* C21: in an attempt of a Writer to open its destination (a step from the
\* open of run_loop) under a known answer of the operating system: if
\* mkfifo fails with EACCES, or mkfifo succeeds or reports EEXIST and the
\* open fails with EACCES, the Writer ends, and the step changes nothing of
\* the Reader, of the signals or of any other Writer; if mkfifo succeeds or
\* reports EEXIST, the open is allowed, a consumer is attached and the
\* poller is set up, the Writer holds the fd and enters Writing; if mkfifo
\* fails otherwise (ENOENT, ENOSPC) or the open finds no consumer (ENXIO),
\* the Writer is back at the top of run_loop, alive, with no fd, its
\* channel and latch as they were.
C21_DestinationOpenErrors ==
    [][\A w \in Outputs : \A answer \in FsAnswers :
         (destFs[w] = {answer} /\ wpc[w] = "rl_open" /\ wpc'[w] # "rl_open") =>
            LET made == answer.mkfifo \in {"0", "EEXIST"}
            IN  /\ (answer.mkfifo = "EACCES" \/ (made /\ answer.open = "EACCES")) =>
                      (wpc'[w] = "done" /\ ~wfd'[w] /\ OnlyWriter(w))
                /\ (made /\ answer.open = "0" /\ cons[w] /\ answer.poll = "Ok") =>
                      (wpc'[w] = "ls_stop" /\ wfd'[w])
                /\ (answer.mkfifo \in {"ENOENT", "ENOSPC"}
                       \/ (made /\ answer.open = "0" /\ ~cons[w])) =>
                      /\ wpc'[w] = "rl_stop" /\ ~wfd'[w]
                      /\ chan'[w] = chan[w] /\ ignore'[w] = ignore[w]
                      /\ OnlyWriter(w)
      ]_vars

\* C21 witness: mkfifo is denied to the Writer of b, which has ended; the
\* Reader has marked b disconnected and read two lines, and the Writer of
\* c has written both.
C21_Witness ==
    /\ \E answer \in FsAnswers : answer.mkfifo = "EACCES" /\ destFs["b"] = {answer}
    /\ wpc["b"] = "done"
    /\ disc["b"]
    /\ readSeq["a"] = << 1, 2 >>
    /\ out["c"] = << 1, 2 >>
    /\ out["b"] = << >>

\* C22 as claimed: a Reader whose open of the source fails ends in that
\* step, its writer-state EXIT, and never runs again; and once a Reader has
\* ended without a line read (as one whose open failed has), no Writer of
\* its group holds or gets an fd on its destination: each ends without
\* ever opening it.
C22_SourceOpenFailure ==
    [][\A g \in Inputs :
         /\ (rpc[g] = "open" /\ rpc'[g] # "open" /\ ~rfd'[g]) =>
               (rpc'[g] = "done" /\ wsig'[g] = SIG_EXIT)
         /\ rpc[g] = "done" => (rpc'[g] = "done" /\ ~rfd'[g])
         /\ (rpc[g] = "done" /\ readSeq[g] = << >>) =>
               \A w \in OutputsOf(g) : ~wfd[w] /\ ~wfd'[w]
      ]_vars

\* The Writer of w is at its receive with a line to write, the latch clear,
\* and the write of that line fails with an error other than EPIPE (a
\* consumer is attached and the FIFO's buffer is full: WouldBlock).
WriteFailsNotEpipe(w) ==
    /\ wpc[w] = "lw_recv" /\ wpc'[w] # "lw_recv"
    /\ chan[w] # << >>
    /\ ~ignore[w]
    /\ cons[w] /\ full[w]

\* C23: when a Writer's write of a line fails with an error other than
\* EPIPE, the Writer stays in Writing with the same fd, the latch stays
\* clear, the line is out of the channel and not written, and the Writer is
\* at the top of its receive loop, where only that Writer has moved; and a
\* line that is gone from the channel unwritten is never in the channel or
\* in the destination later (no retry).
C23_NonEpipeWriteErrors ==
    [][\A w \in Outputs :
         /\ WriteFailsNotEpipe(w) =>
               /\ wpc'[w] = "lw_stop"
               /\ wfd[w] /\ wfd'[w]
               /\ ~ignore'[w]
               /\ chan'[w] = Tail(chan[w])
               /\ out'[w] = out[w]
               /\ OnlyWriter(w)
         /\ \A m \in 1..MaxLines : Lost(w, m) => Lost(w, m)'
      ]_vars

\* C23 witness: the only line read so far is gone from b's channel unwritten
\* while the Writer of b is in its receive loop with its fd, the latch
\* clear, a consumer attached and the FIFO full; later lines can follow.
C23_Witness ==
    /\ readSeq["a"] = << 1 >>
    /\ Lost("b", 1)
    /\ wpc["b"] = "lw_stop" /\ wfd["b"] /\ ~ignore["b"]
    /\ cons["b"] /\ full["b"]

\* C24: when a fan-out finds the Writer of a destination w gone, w not yet
\* marked, the Reader marks w disconnected and goes on draining; the mark
\* is set in such a fan-out only and is never cleared; a marked destination
\* has no Writer and its channel stays empty in every later fan-out; and in
\* a fan-out with w gone or marked every other destination with a live
\* Writer, no mark and an empty channel gets the line.
C24_DisconnectedDestinations ==
    [][\A g \in Inputs : \A w \in OutputsOf(g) :
         /\ (FansOut(g) /\ wpc[w] # "unborn" /\ ~disc[w] /\ ~ReceiverAlive(w)) =>
               disc'[w]
         /\ (~disc[w] /\ disc'[w]) => (FansOut(g) /\ ~ReceiverAlive(w))
         /\ disc[w] =>
               /\ disc'[w]
               /\ wpc[w] = "done" /\ wpc'[w] = "done"
               /\ chan[w] = << >> /\ chan'[w] = << >>
         /\ (FansOut(g) /\ (disc[w] \/ wpc[w] = "done")) =>
               /\ rpc'[g] = "draining"
               /\ \A v \in OutputsOf(g) \ {w} :
                     (~disc[v] /\ ReceiverAlive(v) /\ chan[v] = << >>) =>
                        chan'[v] = << Head(srcBuf[g]) >>
      ]_vars

\* C24 witness: b is marked disconnected, the Reader is draining, and c has
\* been given both lines read: the first is written, the second is in c's
\* channel, unmarked.
C24_Witness ==
    /\ disc["b"] /\ ~disc["c"]
    /\ rpc["a"] = "draining"
    /\ readSeq["a"] = << 1, 2 >>
    /\ out["c"] = << 1 >>
    /\ chan["c"] = << 2 >>

\* C25 as claimed: in every reachable state a Writer that holds a
\* destination fd is in Writing, a Reader that holds a source fd is in
\* Draining, and a task that has terminated holds none; and the fd of a task
\* is opened and closed in steps of that task only.
C25_ScopedDescriptors ==
    /\ [](\A w \in Outputs : wfd[w] => wpc[w] \in WritingPcs)
    /\ [](\A g \in Inputs : rfd[g] => rpc[g] = "draining")
    /\ [][/\ \A w \in Outputs : wfd'[w] # wfd[w] => wpc'[w] # wpc[w]
          /\ \A g \in Inputs : rfd'[g] # rfd[g] => rpc'[g] # rpc[g]]_vars

C27_ParkedLineKept ==
    [][\A w \in Outputs :
         /\ (chan[w] # << >> /\ chan'[w] # chan[w] /\ ReceiverAlive(w)') =>
               /\ wpc[w] = "lw_recv" /\ wfd[w]
               /\ chan'[w] = Tail(chan[w])
         /\ (wpc[w] \in IdlePcs /\ ReceiverAlive(w)' /\ chan[w] # << >>) =>
               /\ chan'[w] = chan[w]
               /\ out'[w] = out[w]
         /\ (wpc[w] \in IdlePcs /\ wpc'[w] \in WritingPcs) =>
               (wpc'[w] = "ls_stop" /\ wfd'[w])
      ]_vars

\* C27 witness: line 1 was enqueued for b while no consumer was attached;
\* the writer-state is back to CLOSE and the Writer of b is parked without
\* an fd, the line still in its channel and nothing written.
C27_Witness ==
    /\ wsig["a"] = SIG_CLOSE
    /\ wpc["b"] \in ParkedPcs /\ ~wfd["b"]
    /\ ~cons["b"]
    /\ chan["b"] = << 1 >>
    /\ out["b"] = << >>
    /\ readSeq["a"] = << 1, 2 >>

\* No element occurs twice in the sequence s.
NoRepeat(s) == \A i \in 1..Len(s) : \A j \in 1..Len(s) : s[i] = s[j] => i = j

\* The Writer of w is at its receive with a line to write, the latch clear,
\* and the write of that line fails with EPIPE (no consumer attached).
WriteFailsEpipe(w) ==
    /\ wpc[w] = "lw_recv" /\ wpc'[w] # "lw_recv"
    /\ chan[w] # << >>
    /\ ~ignore[w]
    /\ ~cons[w]

\* C28: in every reachable state no line occurs twice in what was written
\* to a destination; a step extends what was written to a destination by at
\* most one line, which it takes out of that destination's channel; the line
\* whose write fails with EPIPE is out of the channel unwritten after the
\* step; and a line that is out of the channel unwritten is never written
\* later, whatever reopens follow.
C28_AtMostOnce ==
    /\ [](\A w \in Outputs : NoRepeat(out[w]))
    /\ [][\A w \in Outputs :
            /\ out'[w] # out[w] =>
                  /\ chan[w] # << >>
                  /\ out'[w] = Append(out[w], Head(chan[w]))
                  /\ chan'[w] = Tail(chan[w])
            /\ \A m \in 1..MaxLines :
                  /\ (WriteFailsEpipe(w) /\ Head(chan[w]) = m) => Lost(w, m)'
                  /\ Lost(w, m) => m \notin Range(out'[w])
         ]_vars

\* C28 witness: b's Writer has reopened after an EPIPE and written line 3;
\* lines 1 and 2 were read and are neither written nor in the channel.
C28_Witness ==
    /\ readSeq["a"] = << 1, 2, 3 >>
    /\ out["b"] = << 3 >>
    /\ chan["b"] = << >>
    /\ wfd["b"] /\ ~ignore["b"]

\* C29: the latch of a Writer not yet spawned, and of a Writer at its spawn,
\* is clear; it becomes set only in a step in which a write fails with
\* EPIPE, and such a step sets it; it becomes clear only in a receive made
\* with the latch set, which writes nothing, and such a receive clears it;
\* every other step (parking, an open that fails, a receive timeout,
\* whatever the Reader and the far ends do) leaves it as it is.
C29_IgnoreLatch ==
    /\ [](\A w \in Outputs : wpc[w] = "unborn" => ~ignore[w])
    /\ [][\A w \in Outputs :
            /\ (wpc[w] = "unborn" /\ wpc'[w] # "unborn") => ~ignore'[w]
            /\ (~ignore[w] /\ ignore'[w]) => WriteFailsEpipe(w)
            /\ WriteFailsEpipe(w) => ignore'[w]
            /\ (ignore[w] /\ ~ignore'[w]) => (Receives(w) /\ out'[w] = out[w])
            /\ (ignore[w] /\ Receives(w)) => (~ignore'[w] /\ out'[w] = out[w])
            /\ (ignore[w] /\ wpc[w] = "lw_recv" /\ chan[w] = << >>) => ignore'[w]
            /\ (ignore[w] /\ wpc[w] \in IdlePcs) => ignore'[w]
         ]_vars

\* C29 witness: the latch of b's Writer, set by the EPIPE on line 1, is
\* still set while the Writer is parked under CLOSE without an fd, line 2
\* waiting in the channel to be the one discarded.
C29_Witness ==
    /\ ignore["b"]
    /\ wsig["a"] = SIG_CLOSE
    /\ wpc["b"] = "rl_close" /\ ~wfd["b"]
    /\ readSeq["a"] = << 1, 2 >>
    /\ chan["b"] = << 2 >>
    /\ out["b"] = << >>

====
